---- MODULE Spec2Model ----
(***************************************************************************)
(* circular_buffer<T> of src/circular_buffer.h as a state machine.         *)
(*                                                                         *)
(* The heap is a pool of storage blocks.  A block is a row of cells; a     *)
(* cell holds a value of T or Junk, the indeterminate content of a slot    *)
(* in which no element is constructed (fresh, destroyed or released        *)
(* memory).  Reading Junk is undefined behaviour: the read can yield any   *)
(* value, so a sequence that contains Junk equals no sequence of values.   *)
(* Next to the cells a block records which slots hold a constructed        *)
(* element.                                                                *)
(*                                                                         *)
(* A buffer is the four fields arr, sz, cap, head of the struct.  An       *)
(* operation is an operator from a machine state (heap, buffers, count of  *)
(* element copies made, exception in flight) to the machine state at its   *)
(* end; an action runs one operation of the public interface to its end.   *)
(* The element type throws from its copy constructor at the copy whose     *)
(* number the action draws (0: never), and operator new throws when the    *)
(* action says so.                                                         *)
(***************************************************************************)
EXTENDS Integers, Sequences, FiniteSets, TLC

MaxSize == 4         \* a push or insert is taken only below this size
MaxReserve == 3      \* largest argument given to reserve
MaxBlocks == 3       \* storage blocks the heap can hand out at one time
MaxCopySize == 2     \* size bound of the two-buffer specification
MaxFaults == 1       \* faults that change the state, in one behaviour

\* Two element values tell any two positions of a sequence apart.
Values == {1, 2}
Junk == 0
Null == 0
Blocks == 1..MaxBlocks
Names == {"a", "b"}
Temp == "t"
BadAlloc == 0 - 1                   \* the fault "operator new throws"
CopyFaults == 1..(MaxSize + 2)      \* the fault "the k-th element copy throws"
NoFault == 0

VARIABLES heap, bufs, ref, last, nfaults

vars == <<heap, bufs, ref, last, nfaults>>

----------------------------------------------------------------------------
(* Storage *)

\* The cells of a block are a sequence: a row of cells built by a function
\* constructor is joined to <<>> to make it one.

FreeBlock == [allocd |-> FALSE, cells |-> <<>>, live |-> {}]

InBlock(h, blk, i) == blk \in Blocks /\ i >= 0 /\ i < Len(h[blk].cells)

\* arr[i] read as a value
Rd(h, blk, i) == IF InBlock(h, blk, i) THEN h[blk].cells[i + 1] ELSE Junk

\* new (arr + i) T(v)
Construct(h, blk, i, v) ==
  IF InBlock(h, blk, i)
  THEN [h EXCEPT ![blk].cells[i + 1] = v, ![blk].live = @ \cup {i}]
  ELSE h

\* arr[i].~T() for every i of S
DestroyAll(h, blk, S) ==
  IF blk \in Blocks
  THEN [h EXCEPT ![blk].cells = <<>> \o [k \in 1..Len(@) |-> IF (k - 1) \in S THEN Junk ELSE @[k]],
                 ![blk].live = @ \ S]
  ELSE h

\* operator new(len * sizeof(T))
Alloc(h, blk, len) ==
  [h EXCEPT ![blk] = [allocd |-> TRUE, cells |-> <<>> \o [k \in 1..len |-> Junk], live |-> {}]]

\* operator delete(arr)
Free(h, blk) == IF blk \in Blocks THEN [h EXCEPT ![blk] = FreeBlock] ELSE h

\* std::swap(arr[i], arr[j]): the contents change places
SwapCells(h, blk, i, j) ==
  IF InBlock(h, blk, i) /\ InBlock(h, blk, j)
  THEN [h EXCEPT ![blk].cells[i + 1] = h[blk].cells[j + 1],
                 ![blk].cells[j + 1] = h[blk].cells[i + 1]]
  ELSE h

\* The block operator new returns: one that is released and that no buffer
\* still points to; Null when the pool is used up.
Min(S) == CHOOSE x \in S : \A y \in S : x <= y

NewBlock(h, bs) ==
  LET free == {k \in Blocks : ~h[k].allocd /\ \A y \in DOMAIN bs : bs[y].arr # k}
  IN IF free = {} THEN Null ELSE Min(free)

----------------------------------------------------------------------------
(* The buffer *)

EmptyBuf == [arr |-> Null, sz |-> 0, cap |-> 0, head |-> 0]

tail(b) == IF b.sz = 0 THEN b.head ELSE (b.head + b.sz + b.cap - 1) % b.cap

get_arr_pos(b, index) == (b.head + index) % b.cap

\* operator[](0 .. size-1)
Elems(h, b) == [i \in 1..b.sz |-> Rd(h, b.arr, get_arr_pos(b, i - 1))]

empty(b) == b.sz = 0

\* The slots of the circular run of b
Run(b) == {get_arr_pos(b, i) : i \in 0..(b.sz - 1)}

\* What an observer sees of a buffer
View(h, b) == [sz |-> b.sz, cap |-> b.cap, head |-> b.head, arr |-> b.arr,
               elems |-> Elems(h, b)]

\* arr points to a released block
Dangling(h, b) == b.arr # Null /\ ~h[b.arr].allocd

----------------------------------------------------------------------------
(* The machine that runs an operation *)

Machine(h, bs, f) ==
  [heap |-> h, bufs |-> bs, n |-> 0, t |-> f, af |-> (f = BadAlloc),
   exc |-> FALSE, raised |-> 0, oom |-> FALSE, ret |-> 0, swaps |-> 0]

\* The statements after a call: they run on the machine state m the call
\* left unless an exception is leaving it
Go(m, rest(_)) == IF m.exc \/ m.oom THEN m ELSE rest(m)

\* try { the call that left m } catch (...) { handler }, and the statements
\* after it
Catch(m, handler(_), rest(_)) == IF m.exc THEN handler(m) ELSE rest(m)

\* One call of T's copy constructor: the t-th one throws.
TickCopy(m) ==
  LET k == m.n + 1
  IN [m EXCEPT !.n = k,
               !.exc = (k = m.t),
               !.raised = IF k = m.t THEN k ELSE @]

\* new (blk + i) T(v)
CopyInto(m, blk, i, v) ==
  Go(TickCopy(m), LAMBDA m1 : [m1 EXCEPT !.heap = Construct(@, blk, i, v)])

clear(m, x) ==
  LET b == m.bufs[x]
  IN [m EXCEPT !.heap = DestroyAll(@, b.arr, Run(b)),
               !.bufs[x].sz = 0,
               !.bufs[x].head = 0]

\* array[i - 1].~T() for i = r + 1 down to l + 1
delete_array(h, blk, l, r) == DestroyAll(h, blk, l..r)

RECURSIVE copyFirst(_, _, _, _, _)
\* the loops of lines 256-266 and 269-279: arr[i .. hi-1] to dest[i - head ..]
copyFirst(m, x, dest, i, hi) ==
  IF i >= hi THEN m
  ELSE LET b == m.bufs[x]
       IN Catch(CopyInto(m, dest, i - b.head, Rd(m.heap, b.arr, i)),
                LAMBDA m1 :
                  IF i > b.head
                  THEN [m1 EXCEPT !.heap = Free(delete_array(@, dest, 0, i - b.head - 1), dest)]
                  ELSE m1,
                LAMBDA m1 : copyFirst(m1, x, dest, i + 1, hi))

RECURSIVE copySecond(_, _, _, _, _)
\* the loop of lines 280-289: arr[i .. tail] to dest[i + head_len ..]; its
\* handler does not rethrow
copySecond(m, x, dest, i, head_len) ==
  LET b == m.bufs[x]
  IN IF i > tail(b) THEN m
     ELSE copySecond(
            Catch(CopyInto(m, dest, i + head_len, Rd(m.heap, b.arr, i)),
                  LAMBDA m1 :
                    [m1 EXCEPT !.exc = FALSE,
                               !.heap = IF i > 0
                                        THEN Free(delete_array(@, dest, head_len, head_len + i - 1), dest)
                                        ELSE @],
                  LAMBDA m1 : m1),
            x, dest, i + 1, head_len)

copyToArray(m, x, dest) ==
  LET b == m.bufs[x]
  IN IF b.head <= tail(b)
     THEN copyFirst(m, x, dest, b.head, b.head + b.sz)
     ELSE Go(copyFirst(m, x, dest, b.head, b.cap),
             LAMBDA m1 : copySecond(m1, x, dest, 0, b.cap - b.head))

increase_cap(m, x, new_cap) ==
  LET b == m.bufs[x]
      new_arr == NewBlock(m.heap, m.bufs)
  IN IF new_cap >= b.cap
     THEN IF m.af
          THEN [m EXCEPT !.exc = TRUE, !.raised = BadAlloc]
          ELSE IF new_arr = Null
          THEN [m EXCEPT !.oom = TRUE]
          ELSE Go(copyToArray([m EXCEPT !.heap = Alloc(@, new_arr, new_cap + 1)], x, new_arr),
                  LAMBDA m2 :
                    [clear(m2, x) EXCEPT !.heap = Free(@, b.arr),
                                         !.bufs[x].cap = new_cap + 1,
                                         !.bufs[x].sz = b.sz,
                                         !.bufs[x].arr = new_arr])
     ELSE m

\* ensure_cap growing only once every slot is taken
ensure_cap_whenFull(m, x) ==
  LET b == m.bufs[x]
  IN IF b.sz >= b.cap
     THEN IF b.cap = 0
          THEN increase_cap(m, x, 2)
          ELSE increase_cap(m, x, 2 * (b.cap - 1) + 1)
     ELSE m

\* ensure_cap asking for 2 * cap + 1
ensure_cap_doublesCap(m, x) ==
  LET b == m.bufs[x]
  IN IF b.sz + 1 >= b.cap
     THEN IF b.cap = 0
          THEN increase_cap(m, x, 2)
          ELSE increase_cap(m, x, 2 * b.cap + 1)
     ELSE m

ensure_cap(m, x) ==
  LET b == m.bufs[x]
  IN IF b.sz + 1 >= b.cap
     THEN IF b.cap = 0
          THEN increase_cap(m, x, 2)
          ELSE increase_cap(m, x, 2 * (b.cap - 1) + 1)
     ELSE m

\* lines 70-74: the slot push_back constructs the new element in
BackSlot(b) == IF empty(b) THEN 0 ELSE (tail(b) + 1) % b.cap

push_back(m, x, val) ==
  Go(TickCopy(m),                             \* T val_copy(val)
     LAMBDA m1 :
       Go(ensure_cap(m1, x),
          LAMBDA m2 :
            Go(CopyInto(m2, m2.bufs[x].arr, BackSlot(m2.bufs[x]), val),
               LAMBDA m3 : [m3 EXCEPT !.bufs[x].sz = @ + 1])))

pop_back(m, x) ==
  LET b == m.bufs[x]
  IN [m EXCEPT !.heap = DestroyAll(@, b.arr, {tail(b)}),
               !.bufs[x].sz = @ - 1]

\* lines 91-93: head after push_front has moved it
FrontSlot(b) == IF ~empty(b) THEN (b.head + b.cap - 1) % b.cap ELSE b.head

push_front(m, x, val) ==
  Go(TickCopy(m),                             \* T val_copy(val)
     LAMBDA m1 :
       Go(ensure_cap(m1, x),
          LAMBDA m2 :
            Go(CopyInto([m2 EXCEPT !.bufs[x].head = FrontSlot(m2.bufs[x])],
                        m2.bufs[x].arr, FrontSlot(m2.bufs[x]), val),
               LAMBDA m4 : [m4 EXCEPT !.bufs[x].sz = @ + 1])))

\* pop_front giving a slot of the storage back
pop_front_shrinks(m, x) ==
  LET b == m.bufs[x]
  IN [m EXCEPT !.heap = DestroyAll(@, b.arr, {b.head}),
               !.bufs[x].head = (b.head + 1) % b.cap,
               !.bufs[x].sz = @ - 1,
               !.bufs[x].cap = @ - 1]

pop_front(m, x) ==
  LET b == m.bufs[x]
  IN [m EXCEPT !.heap = DestroyAll(@, b.arr, {b.head}),
               !.bufs[x].head = (b.head + 1) % b.cap,
               !.bufs[x].sz = @ - 1]

\* std::swap(*i, *j) on the iterators with logical indices i and j: T tmp(a),
\* then two assignments
SwapAt(m, x, i, j) ==
  LET b == m.bufs[x]
  IN Go(TickCopy(m),
        LAMBDA m1 :
          [m1 EXCEPT !.heap = SwapCells(@, b.arr, get_arr_pos(b, i), get_arr_pos(b, j)),
                     !.swaps = @ + 1])

RECURSIVE insertFwd_returnsBegin(_, _, _, _)
\* insertFwd returning begin() instead of cur
insertFwd_returnsBegin(m, x, cur, pos) ==
  IF cur < pos
  THEN Go(SwapAt(m, x, cur, cur + 1),
          LAMBDA m1 : insertFwd_returnsBegin(m1, x, cur + 1, pos))
  ELSE [m EXCEPT !.ret = 0]

RECURSIVE insertFwd(_, _, _, _)
\* lines 146-151: while (cur < pos) swap(*cur, *(cur + 1)), ++cur
insertFwd(m, x, cur, pos) ==
  IF cur < pos
  THEN Go(SwapAt(m, x, cur, cur + 1), LAMBDA m1 : insertFwd(m1, x, cur + 1, pos))
  ELSE [m EXCEPT !.ret = cur]

RECURSIVE insertBwd(_, _, _, _)
\* lines 155-160: while (cur > pos) swap(*cur, *(cur - 1)), --cur
insertBwd(m, x, cur, pos) ==
  IF cur > pos
  THEN Go(SwapAt(m, x, cur, cur - 1), LAMBDA m1 : insertBwd(m1, x, cur - 1, pos))
  ELSE [m EXCEPT !.ret = cur]

\* insert sending a tie to the front
insert_tiesFront(m, x, pos, val) ==
  IF pos - 0 <= m.bufs[x].sz - pos
  THEN Go(push_front(m, x, val), LAMBDA m1 : insertFwd(m1, x, 0, pos))
  ELSE Go(push_back(m, x, val),
          LAMBDA m1 : insertBwd(m1, x, m1.bufs[x].sz - 1, pos))

\* Iterators are logical indices: begin() is 0, end() is sz (lines 116-127)
insert(m, x, pos, val) ==
  IF pos - 0 < m.bufs[x].sz - pos
  THEN Go(push_front(m, x, val), LAMBDA m1 : insertFwd(m1, x, 0, pos))
  ELSE Go(push_back(m, x, val),
          LAMBDA m1 : insertBwd(m1, x, m1.bufs[x].sz - 1, pos))

RECURSIVE eraseToFront_stopsEarly(_, _, _)
\* eraseToFront with the loop ended one step early
eraseToFront_stopsEarly(m, x, cur) ==
  IF cur > 1
  THEN Go(SwapAt(m, x, cur - 1, cur),
          LAMBDA m1 : eraseToFront_stopsEarly(m1, x, cur - 1))
  ELSE m

RECURSIVE eraseToFront(_, _, _)
\* lines 168-172: while (cur > begin()) swap(*(cur - 1), *cur), --cur
eraseToFront(m, x, cur) ==
  IF cur > 0
  THEN Go(SwapAt(m, x, cur - 1, cur), LAMBDA m1 : eraseToFront(m1, x, cur - 1))
  ELSE m

RECURSIVE eraseToBack(_, _, _)
\* lines 176-180: while (cur < end() - 1) swap(*(cur + 1), *cur), ++cur
eraseToBack(m, x, cur) ==
  IF cur < m.bufs[x].sz - 1
  THEN Go(SwapAt(m, x, cur + 1, cur), LAMBDA m1 : eraseToBack(m1, x, cur + 1))
  ELSE m

erase(m, x, pos) ==
  IF pos - 0 < m.bufs[x].sz - pos
  THEN Go(eraseToFront(m, x, pos), LAMBDA m1 : [pop_front(m1, x) EXCEPT !.ret = pos])
  ELSE Go(eraseToBack(m, x, pos), LAMBDA m1 : [pop_back(m1, x) EXCEPT !.ret = pos])

RECURSIVE rangeToFront(_, _, _, _)
\* lines 193-196: while (end_1 > begin()) swap(*end_1, *end_2), --end_1, --end_2
rangeToFront(m, x, end_1, end_2) ==
  IF end_1 > 0
  THEN Go(SwapAt(m, x, end_1, end_2),
          LAMBDA m1 : rangeToFront(m1, x, end_1 - 1, end_2 - 1))
  ELSE m

RECURSIVE rangeToBack(_, _, _, _)
\* lines 205-208: while (begin_1 < end()) swap(*begin_1, *begin_2), ++begin_1, ++begin_2
rangeToBack(m, x, begin_1, begin_2) ==
  IF begin_1 < m.bufs[x].sz
  THEN Go(SwapAt(m, x, begin_1, begin_2),
          LAMBDA m1 : rangeToBack(m1, x, begin_1 + 1, begin_2 + 1))
  ELSE m

RECURSIVE popFrontTimes(_, _, _)
\* lines 198-200
popFrontTimes(m, x, k) == IF k = 0 THEN m ELSE popFrontTimes(pop_front(m, x), x, k - 1)

RECURSIVE popBackTimes(_, _, _)
\* lines 210-212
popBackTimes(m, x, k) == IF k = 0 THEN m ELSE popBackTimes(pop_back(m, x), x, k - 1)

erase_range(m, x, first_index, last_index) ==
  IF first_index - 0 < m.bufs[x].sz - last_index
  THEN Go(IF first_index > 0
          THEN rangeToFront(m, x, first_index - 1, last_index - 1)
          ELSE m,
          LAMBDA m1 :
            [popFrontTimes(m1, x, last_index - first_index) EXCEPT !.ret = first_index])
  ELSE Go(IF last_index # m.bufs[x].sz
          THEN rangeToBack(m, x, last_index, first_index)
          ELSE m,
          LAMBDA m1 :
            [popBackTimes(m1, x, last_index - first_index) EXCEPT !.ret = first_index])

\* reserve asking for one slot less
reserve_oneLess(m, x, desired_capacity) == increase_cap(m, x, desired_capacity - 1)

reserve(m, x, desired_capacity) == increase_cap(m, x, desired_capacity)

\* ~circular_buffer(); the name x is free for a new object afterwards
destroy(m, x) ==
  [clear(m, x) EXCEPT !.heap = Free(@, m.bufs[x].arr), !.bufs[x] = EmptyBuf]

swap(m, x, y) ==
  [m EXCEPT !.bufs[x] = m.bufs[y], !.bufs[y] = m.bufs[x]]

RECURSIVE copyElems(_, _, _, _)
\* lines 29-31: for (it = other.begin(); it != other.end(); ++it) push_back(*it)
copyElems(m, x, other, it) ==
  LET o == m.bufs[other]
  IN IF it # o.sz
     THEN Go(push_back(m, x, Rd(m.heap, o.arr, get_arr_pos(o, it))),
             LAMBDA m1 : copyElems(m1, x, other, it + 1))
     ELSE m

\* copy_construct taking over the fields of other: a memberwise copy
copy_construct_shallow(m, x, other) == [m EXCEPT !.bufs[x] = m.bufs[other]]

\* circular_buffer(circular_buffer const& other) for a new object x.  The
\* constructor delegates to circular_buffer(), so a throw from its body
\* runs the destructor of x.
copy_construct(m, x, other) ==
  Catch(Go(reserve([m EXCEPT !.bufs[x] = EmptyBuf], x, m.bufs[other].sz),
           LAMBDA m1 : copyElems(m1, x, other, 0)),
        LAMBDA m2 : destroy(m2, x),
        LAMBDA m2 : m2)

\* assign without the temporary: clear, then push the elements of rhs
assign_inPlace(m, x, rhs) ==
  IF x = rhs THEN m ELSE copyElems(clear(m, x), x, rhs, 0)

\* operator=(circular_buffer other): other is a copy of the right-hand side,
\* held in Temp, and never the object itself
assign(m, x, rhs) ==
  Go(copy_construct(m, Temp, rhs),
     LAMBDA m1 : destroy(clear(swap(m1, x, Temp), Temp), Temp))

----------------------------------------------------------------------------
(* The state machine *)

\* ref is the reference double-ended queue of buffer "a": what a deque holds
\* after the calls made so far.  It follows the buffer as long as only
\* push_back, push_front, pop_back and pop_front were called and no copy
\* threw; after any other call it is Untracked.
Untracked == <<Junk>>

\* last is the operation that led to the state: its name, the buffer x it
\* was called on, whether it threw to its caller, and whether a throw was
\* raised inside it that its caller never saw.
NoOp == [op |-> "init", x |-> "a", threw |-> FALSE, swallowed |-> FALSE]

\* Every buffer is default-constructed (lines 18-23).
Constructed ==
  /\ heap = [k \in Blocks |-> FreeBlock]
  /\ bufs = [z \in Names \cup {Temp} |-> EmptyBuf]
  /\ last = NoOp
  /\ nfaults = 0

Init == Constructed /\ ref = Untracked

\* The initial state with the reference deque followed from the start
InitDeque == Constructed /\ ref = <<>>

\* Block addresses are only ever compared for equality, and memory that
\* nothing points to cannot be observed: the state keeps the blocks the
\* buffers point to and names them in the order a, b.
NameOf(bs, k) ==
  IF k = Null THEN Null
  ELSE IF k = bs["a"].arr THEN 1
  ELSE IF bs["a"].arr = Null THEN 1 ELSE 2

Pointed(bs) == {bs[z].arr : z \in Names} \ {Null}

Named(h, bs) ==
  [heap |-> [k \in Blocks |->
               IF \E j \in Pointed(bs) : NameOf(bs, j) = k
               THEN h[CHOOSE j \in Pointed(bs) : NameOf(bs, j) = k]
               ELSE FreeBlock],
   bufs |-> [z \in DOMAIN bs |-> [bs[z] EXCEPT !.arr = NameOf(bs, @)]]]

\* The state after operation op on x that ended in machine state m; r is the
\* reference deque after the call.  nfaults counts the faults that changed
\* the state: a fault that leaves everything as it was can come again.
Commit(op, x, m, r) ==
  LET n == Named(m.heap, m.bufs)
  IN /\ ~m.oom
     /\ heap' = n.heap
     /\ bufs' = n.bufs
     /\ ref' = IF m.raised = NoFault THEN r ELSE Untracked
     /\ last' = [op |-> op, x |-> x, threw |-> m.exc,
                 swallowed |-> (m.raised # NoFault /\ ~m.exc)]
     /\ nfaults' = IF m.raised # NoFault /\ (n.heap # heap \/ n.bufs # bufs)
                   THEN nfaults + 1 ELSE nfaults

\* s[0..k) and s[k..) of a sequence, k cut to its length
Take(s, k) == [i \in 1..(IF k < Len(s) THEN k ELSE Len(s)) |-> s[i]]
Drop(s, k) == [i \in 1..(IF k < Len(s) THEN Len(s) - k ELSE 0) |-> s[i + k]]

InsertAt(s, p, v) == Take(s, p) \o <<v>> \o Drop(s, p)

RemoveRange(s, f, l) == Take(s, f) \o Drop(s, l)

\* The reference deque after a deque call on x, and after any other call
Tracked(x, r) == IF x # "a" THEN ref ELSE IF ref = Untracked THEN Untracked ELSE r

Untrack(x) == IF x = "a" THEN Untracked ELSE ref

\* An operation is called on a buffer whose storage pointer is valid
Usable(x) == ~Dangling(heap, bufs[x])

NoFaults == {NoFault}
AllFaults == {NoFault, BadAlloc} \cup CopyFaults

\* The faults an operation can be given
Drawn(faults) == IF nfaults < MaxFaults THEN faults ELSE NoFaults

PushBack(x, bound, faults) ==
  \E v \in Values, f \in Drawn(faults) :
    /\ Usable(x) /\ bufs[x].sz < bound
    /\ Commit("push_back", x, push_back(Machine(heap, bufs, f), x, v),
              Tracked(x, Append(ref, v)))

PushFront(x, bound, faults) ==
  \E v \in Values, f \in Drawn(faults) :
    /\ Usable(x) /\ bufs[x].sz < bound
    /\ Commit("push_front", x, push_front(Machine(heap, bufs, f), x, v),
              Tracked(x, <<v>> \o ref))

PopBack(x) ==
  /\ Usable(x) /\ bufs[x].sz > 0
  /\ Commit("pop_back", x, pop_back(Machine(heap, bufs, NoFault), x),
            Tracked(x, Take(ref, Len(ref) - 1)))

PopFront(x) ==
  /\ Usable(x) /\ bufs[x].sz > 0
  /\ Commit("pop_front", x, pop_front(Machine(heap, bufs, NoFault), x),
            Tracked(x, Drop(ref, 1)))

Reserve(x, faults) ==
  \E n \in 0..MaxReserve, f \in Drawn(faults) :
    /\ Usable(x)
    /\ Commit("reserve", x, reserve(Machine(heap, bufs, f), x, n), Untrack(x))

Clear(x) ==
  /\ Usable(x)
  /\ Commit("clear", x, clear(Machine(heap, bufs, NoFault), x), Untrack(x))

Insert(x, bound, faults) ==
  \E v \in Values, p \in 0..bufs[x].sz, f \in Drawn(faults) :
    /\ Usable(x) /\ bufs[x].sz < bound
    /\ Commit("insert", x, insert(Machine(heap, bufs, f), x, p, v), Untrack(x))

Erase(x, faults) ==
  \E p \in 0..(bufs[x].sz - 1), f \in Drawn(faults) :
    /\ Usable(x)
    /\ Commit("erase", x, erase(Machine(heap, bufs, f), x, p), Untrack(x))

EraseRange(x, faults) ==
  \E p \in 0..bufs[x].sz, f \in Drawn(faults) :
    \E q \in p..bufs[x].sz :
      /\ Usable(x)
      /\ Commit("erase_range", x, erase_range(Machine(heap, bufs, f), x, p, q),
                Untrack(x))

\* erase(insert(begin() + pos, val))
insert_erase(m, x, pos, val) ==
  Go(insert(m, x, pos, val), LAMBDA m1 : erase(m1, x, m1.ret))

InsertErase(x, bound) ==
  \E v \in Values, p \in 0..bufs[x].sz :
    /\ Usable(x) /\ bufs[x].sz < bound
    /\ Commit("insert_erase", x, insert_erase(Machine(heap, bufs, NoFault), x, p, v),
              Untrack(x))

\* One buffer, every operation of the interface, no fault
Next ==
  \/ PushBack("a", MaxSize, NoFaults)
  \/ PushFront("a", MaxSize, NoFaults)
  \/ PopBack("a")
  \/ PopFront("a")
  \/ Clear("a")
  \/ Insert("a", MaxSize, NoFaults)
  \/ Erase("a", NoFaults)
  \/ EraseRange("a", NoFaults)

Spec == Init /\ [][Next]_vars

\* One buffer used as a deque, with erase(insert(...)) as one call, no fault
NextRoundTrip ==
  \/ PushBack("a", MaxSize, NoFaults)
  \/ PushFront("a", MaxSize, NoFaults)
  \/ PopBack("a")
  \/ PopFront("a")
  \/ InsertErase("a", MaxSize)

SpecRoundTrip == Init /\ [][NextRoundTrip]_vars

\* One buffer used as a double-ended queue, no fault
NextDeque ==
  \/ PushBack("a", MaxSize, NoFaults)
  \/ PushFront("a", MaxSize, NoFaults)
  \/ PopBack("a")
  \/ PopFront("a")

SpecDeque == InitDeque /\ [][NextDeque]_vars

\* One buffer, pushes, pops and reserve, with a throwing element type and a
\* throwing operator new
NextFaults ==
  \/ PushBack("a", MaxSize, AllFaults)
  \/ PushFront("a", MaxSize, AllFaults)
  \/ PopBack("a")
  \/ PopFront("a")
  \/ Reserve("a", AllFaults)

SpecFaults == Init /\ [][NextFaults]_vars

\* circular_buffer x(y): x is a new object
CopyConstruct(x, y, faults) ==
  \E f \in Drawn(faults) :
    /\ x # y /\ Usable(y) /\ bufs[x] = EmptyBuf
    /\ Commit("copy", x, copy_construct(Machine(heap, bufs, f), x, y), Untrack(x))

\* x = y
Assign(x, y, faults) ==
  \E f \in Drawn(faults) :
    /\ Usable(x) /\ Usable(y)
    /\ Commit("assign", x, assign(Machine(heap, bufs, f), x, y), Untrack(x))

\* x goes out of scope
Destroy(x) ==
  /\ Usable(x) /\ bufs[x] # EmptyBuf
  /\ Commit("destroy", x, destroy(Machine(heap, bufs, NoFault), x), Untrack(x))

\* Two buffers, no fault: a is used as a deque, b is made as a copy of a, is
\* assigned from a, is used and goes out of scope
NextCopy ==
  \/ PushBack("a", MaxCopySize, NoFaults)
  \/ PushFront("a", MaxCopySize, NoFaults)
  \/ PopFront("a")
  \/ CopyConstruct("b", "a", NoFaults)
  \/ Assign("b", "a", NoFaults)
  \/ PopFront("b")
  \/ Destroy("b")

SpecCopy == Init /\ [][NextCopy]_vars

\* Two buffers, with a throwing element type and a throwing operator new in
\* the copies: a is used as a queue, b is made as a copy of a and is assigned
\* from a
NextAssign ==
  \/ PushBack("a", MaxCopySize, NoFaults)
  \/ PopFront("a")
  \/ CopyConstruct("b", "a", AllFaults)
  \/ Assign("b", "a", AllFaults)
  \/ Destroy("b")

SpecAssign == Init /\ [][NextAssign]_vars

\* One buffer used as a deque, with reserve and clear, no fault
NextReserve ==
  \/ PushBack("a", MaxSize, NoFaults)
  \/ PushFront("a", MaxSize, NoFaults)
  \/ PopBack("a")
  \/ PopFront("a")
  \/ Reserve("a", NoFaults)
  \/ Clear("a")

SpecReserve == Init /\ [][NextReserve]_vars

\* The buffer used as a queue: filled at the back, drained at the front,
\* reserved and cleared
NextQueue ==
  \/ PushBack("a", MaxSize, NoFaults)
  \/ PopFront("a")
  \/ Reserve("a", NoFaults)
  \/ Clear("a")

SpecQueue == Init /\ [][NextQueue]_vars

----------------------------------------------------------------------------
(* Observers *)

A == bufs["a"]

front(h, b) == Rd(h, b.arr, b.head)

back(h, b) == Rd(h, b.arr, tail(b))

\* size(), capacity() and operator[](0 .. size-1) of buffer x in a machine state
Observed(h, b) == [sz |-> b.sz, cap |-> b.cap, elems |-> Elems(h, b)]

Now(x) == Observed(heap, bufs[x])

Then(m, x) == Observed(m.heap, m.bufs[x])

\* The run of b wraps around the end of storage
Wrapped(b) == b.sz > 0 /\ b.head > tail(b)

\* The machine in which an operation starts in the current state
Start(f) == Machine(heap, bufs, f)

----------------------------------------------------------------------------
(* Claims *)

\* C1: used through push_back, push_front, pop_back and pop_front alone,
\* with no exception, the buffer shows after every call the size, the
\* elements, the front and the back of a reference double-ended queue given
\* the same calls.
C1_MatchesDeque ==
  ref # Untracked =>
    /\ A.sz = Len(ref)
    /\ Elems(heap, A) = ref
    /\ A.sz > 0 => front(heap, A) = ref[1] /\ back(heap, A) = ref[Len(ref)]

\* C2: a push_back or push_front that throws, at the copy of its argument,
\* at a copy of the growth, at the construction of the new element or at the
\* allocation, leaves size(), capacity() and the element sequence as they
\* were before the call.
C2_PushStrong ==
  Usable("a") =>
    \A v \in Values, f \in AllFaults :
      \A m \in {push_back(Start(f), "a", v), push_front(Start(f), "a", v)} :
        m.exc => Then(m, "a") = Now("a")

\* C3: a reserve that meets an allocation failure or a throwing element copy
\* throws to its caller and leaves size(), capacity() and the element
\* sequence as they were, in a contiguous and in a wrapped layout and for a
\* failure at any of the copies.
C3_ReserveStrong ==
  Usable("a") =>
    \A n \in 0..MaxReserve, f \in AllFaults :
      LET m == reserve(Start(f), "a", n)
      IN m.raised # NoFault => m.exc /\ Then(m, "a") = Now("a")

\* C4: erase(begin() + f, begin() + l) leaves the elements before f followed
\* by the elements from l on, in their order, and takes l - f off the size.
C4_EraseRange ==
  Usable("a") =>
    \A f \in 0..A.sz :
      \A l \in f..A.sz :
        LET m == erase_range(Start(NoFault), "a", f, l)
        IN /\ Elems(m.heap, m.bufs["a"]) = RemoveRange(Elems(heap, A), f, l)
           /\ m.bufs["a"].sz = A.sz - (l - f)

\* C5: insert(begin() + p, v) leaves the elements before p, then v, then
\* the elements from p on, also in an empty buffer reached by pushes and pops.
C5_Insert ==
  Usable("a") =>
    \A p \in 0..A.sz, v \in Values :
      LET m == insert(Start(NoFault), "a", p, v)
      IN Elems(m.heap, m.bufs["a"]) = InsertAt(Elems(heap, A), p, v)

\* C6: erase(begin() + p) removes exactly the element at logical index p and
\* keeps the others in their order, toward whichever end it shifts; the size
\* goes down by one.
C6_EraseOne ==
  Usable("a") =>
    \A p \in 0..(A.sz - 1) :
      LET m == erase(Start(NoFault), "a", p)
      IN /\ Elems(m.heap, m.bufs["a"]) = RemoveRange(Elems(heap, A), p, p + 1)
         /\ m.bufs["a"].sz = A.sz - 1

\* An erase has run on a wrapped buffer that still holds two elements or more
C6_Witness == last.op = "erase" /\ A.sz >= 2 /\ Wrapped(A)

\* C7: erase(insert(begin() + p, v)) leaves the elements and the size it
\* found, whether or not the insert grew the storage.
C7_InsertEraseRoundTrip ==
  Usable("a") =>
    \A p \in 0..A.sz, v \in Values :
      LET m == insert_erase(Start(NoFault), "a", p, v)
      IN /\ Elems(m.heap, m.bufs["a"]) = Elems(heap, A)
         /\ m.bufs["a"].sz = A.sz

\* An erase(insert(...)) has run whose insert grew the storage of a buffer
\* of two elements
C7_Witness == last.op = "insert_erase" /\ A.sz = 2 /\ A.cap = 6

\* The capacity a push leaves when it finds size + 1 >= capacity
GrownCaps(new_cap) ==
  {m.bufs["a"].cap : m \in {push_back(Start(NoFault), "a", 1),
                           push_front(Start(NoFault), "a", 1)}} = {new_cap}

\* C10, as the spec states it: a push that finds size + 1 at the capacity
\* leaves capacity 2 * (capacity - 1) + 1, or 2 when nothing was allocated.
C10_GrowthAsStated ==
  Usable("a") /\ A.sz + 1 >= A.cap =>
    GrownCaps(IF A.cap = 0 THEN 2 ELSE 2 * (A.cap - 1) + 1)

\* C10, amended: a push that finds size + 1 at the capacity leaves capacity
\* 2 * capacity, or 3 when nothing was allocated; pushes alone give the
\* capacities 0, 3, 6, 12, ...
C10_Growth ==
  /\ Usable("a") /\ A.sz + 1 >= A.cap =>
       GrownCaps(IF A.cap = 0 THEN 3 ELSE 2 * A.cap)
  /\ A.cap \in {0} \cup {3 * (2 ^ k) : k \in 0..MaxSize}

\* A push has grown the storage a second time
C10_Witness == last.op \in {"push_back", "push_front"} /\ A.cap = 6 /\ A.sz = 3

B == bufs["b"]

\* The machine states in which a mutating operation on x can end: every
\* operation of the interface with every argument
Mutations(x) ==
  LET b == bufs[x]
  IN UNION {
       {push_back(Start(NoFault), x, v) : v \in Values},
       {push_front(Start(NoFault), x, v) : v \in Values},
       {reserve(Start(NoFault), x, n) : n \in 0..MaxReserve},
       {insert(Start(NoFault), x, p, v) : p \in 0..b.sz, v \in Values},
       {erase(Start(NoFault), x, p) : p \in 0..(b.sz - 1)},
       {erase_range(Start(NoFault), x, pq[1], pq[2]) :
          pq \in {qq \in (0..b.sz) \X (0..b.sz) : qq[1] <= qq[2]}},
       IF b.sz > 0 THEN {pop_back(Start(NoFault), x), pop_front(Start(NoFault), x)}
                   ELSE {},
       {clear(Start(NoFault), x)} }

\* C8: a buffer copy-constructed or copy-assigned from a source in any
\* layout has the size and the elements of the source, and afterwards no
\* mutating operation on one of two buffers changes the size or the elements
\* of the other.
C8_DeepCopy ==
  /\ \A y \in Names :
       Usable(y) =>
         LET m == copy_construct(Start(NoFault), Temp, y)
         IN Elems(m.heap, m.bufs[Temp]) = Elems(heap, bufs[y])
            /\ m.bufs[Temp].sz = bufs[y].sz
            /\ Then(m, y) = Now(y)
  /\ \A x, y \in Names :
       Usable(x) /\ Usable(y) =>
         LET m == assign(Start(NoFault), x, y)
         IN Elems(m.heap, m.bufs[x]) = Elems(heap, bufs[y])
            /\ m.bufs[x].sz = bufs[y].sz
  /\ \A x \in Names :
       Usable(x) =>
         \A m \in Mutations(x) : \A y \in Names \ {x} : Then(m, y) = Now(y)

\* b has just been made as a copy of a wrapped a of two elements
C8_Witness ==
  last.op = "copy" /\ ~last.threw /\ Wrapped(A) /\ A.sz = 2 /\ B.sz = 2

\* C9: x = y either completes with the elements of y in x, or throws, when a
\* copy or the allocation fails, with size(), capacity() and the elements of
\* x as before; y is as before in both cases.
C9_AssignStrong ==
  \A x, y \in Names, f \in AllFaults :
    Usable(x) /\ Usable(y) =>
      LET m == assign(Start(f), x, y)
      IN /\ m.raised # NoFault => m.exc
         /\ ~m.exc => Elems(m.heap, m.bufs[x]) = Elems(heap, bufs[y])
         /\ m.exc => Then(m, x) = Now(x)
         /\ x # y => Then(m, y) = Now(y)

\* An assignment to a non-empty b from a non-empty a has thrown
C9_Witness ==
  last.op = "assign" /\ last.x = "b" /\ last.threw /\ B.sz > 0 /\ A.sz > 0

RECURSIVE Fills(_, _, _)
\* The machine states in which push_back and push_front calls, in any
\* order, have brought x to size n
Fills(m, x, n) ==
  IF m.exc \/ m.oom \/ m.bufs[x].sz >= n THEN {m}
  ELSE UNION {Fills(p, x, n) : p \in {push_back(m, x, 1), push_front(m, x, 1)}}

\* What C11 says of the machine state m in which reserve(n) on "a" returned
Reserved(m, n) ==
  /\ ~m.exc /\ ~m.oom
  /\ m.bufs["a"].sz = A.sz
  /\ Elems(m.heap, m.bufs["a"]) = Elems(heap, A)
  /\ \A k \in Fills(m, "a", n) :
       ~k.exc /\ ~k.oom /\ k.bufs["a"].cap = m.bufs["a"].cap
  /\ n <= A.cap - 1 => m.bufs["a"] = A /\ m.heap = heap

\* C11: after reserve(n) pushes bring the buffer to size n with capacity()
\* unchanged; reserve(n) with n <= capacity - 1 changes neither capacity,
\* head, storage block nor elements; size and elements are the same before
\* and after reserve in both cases.
C11_Reserve ==
  Usable("a") => \A n \in 0..MaxReserve : Reserved(reserve(Start(NoFault), "a", n), n)

\* reserve has given a buffer of two elements the capacity 4
C11_Witness == last.op = "reserve" /\ A.sz = 2 /\ A.cap = 4

\* The machine states in which a call that adds or reserves can end on x:
\* push_back, push_front, insert and reserve, with every argument and fault
Additions(x) ==
  UNION {
    {push_back(Start(f), x, v) : v \in Values, f \in AllFaults},
    {push_front(Start(f), x, v) : v \in Values, f \in AllFaults},
    {insert(Start(f), x, p, v) : p \in 0..bufs[x].sz, v \in Values, f \in AllFaults},
    {reserve(Start(f), x, n) : n \in 0..MaxReserve, f \in AllFaults} }

\* The machine states in which a call that removes can end on x: pop_back,
\* pop_front, erase of one element and of a range, and clear
Removals(x) ==
  LET b == bufs[x]
  IN UNION {
       IF b.sz > 0 THEN {pop_back(Start(NoFault), x), pop_front(Start(NoFault), x)}
                   ELSE {},
       {erase(Start(NoFault), x, p) : p \in 0..(b.sz - 1)},
       {erase_range(Start(NoFault), x, pq[1], pq[2]) :
          pq \in {qq \in (0..b.sz) \X (0..b.sz) : qq[1] <= qq[2]}},
       {clear(Start(NoFault), x)} }

\* C12: no step of push_back, push_front, insert or reserve, returning or
\* throwing, lowers capacity(); pop_back, pop_front, erase and clear leave
\* capacity() as it was.
C12_CapacityMonotone ==
  Usable("a") =>
    /\ \A m \in Additions("a") : m.bufs["a"].cap >= A.cap
    /\ \A m \in Removals("a") : m.bufs["a"].cap = A.cap

\* A pop has emptied a buffer that had grown to capacity 6
C12_Witness == last.op \in {"pop_back", "pop_front"} /\ A.sz = 0 /\ A.cap = 6

\* lines 308-316 and 293-306 keep a slot of the storage unused
NeverFull(b) == (b.cap = 0 => b.sz = 0) /\ (b.cap > 0 => b.sz < b.cap)

\* C13: in every state the public operations reach, reserve(0) and copies
\* of empty buffers included, capacity = 0 implies size = 0 and capacity > 0
\* implies size < capacity: the buffer is never completely full.
C13_NeverFull ==
  /\ NeverFull(A)
  /\ Usable("a") =>
       /\ \A m \in Mutations("a") : NeverFull(m.bufs["a"])
       /\ NeverFull(copy_construct(Start(NoFault), Temp, "a").bufs[Temp])

\* reserve(0) has given a buffer without elements a storage of one slot
C13_Witness == last.op = "reserve" /\ A.cap = 1 /\ A.sz = 0

\* operator* resolving the arr_index without the head
IterSlot_ignoresHead(b, it) == it % b.cap

\* lines 347-349: the slot operator* of an iterator of arr_index it reads
IterSlot(b, it) == get_arr_pos(b, it)

\* In m the iterator of arr_index it still reads the slot it read before the
\* call, and the slot holds what it held
Designates(m, it) ==
  /\ m.bufs["a"].arr = A.arr
  /\ IterSlot(m.bufs["a"], it) = IterSlot(A, it)
  /\ Rd(m.heap, A.arr, IterSlot(A, it)) = Rd(heap, A.arr, IterSlot(A, it))

\* C14: after pop_front() or pop_back() on a buffer of size >= 2, every
\* iterator obtained before the call on an element other than the removed one
\* reads the slot it read before, and the slot holds the element it held.
C14_PopsKeepIterators ==
  Usable("a") /\ A.sz >= 2 =>
    /\ \A it \in 1..(A.sz - 1) : Designates(pop_front(Start(NoFault), "a"), it)
    /\ \A it \in 0..(A.sz - 2) : Designates(pop_back(Start(NoFault), "a"), it)

\* The slots of the storage of b that hold a constructed element
Live(h, b) == IF b.arr = Null THEN {} ELSE h[b.arr].live

\* C15: in every state reached by operations that do not throw, the slots
\* that hold a constructed element are exactly the circular run
\* {(head + i) mod capacity : 0 <= i < size}, and clear() leaves no slot
\* constructed.
C15_LiveIsRun ==
  Usable("a") =>
    /\ Live(heap, A) = Run(A)
    /\ Live(clear(Start(NoFault), "a").heap, A) = {}

\* A growth of "a" that met a throwing copy has left m: the exception is
\* leaving the operation, and the block the growth had taken is released,
\* with no element constructed in it
RolledBack(m) ==
  /\ m.exc
  /\ ~m.heap[NewBlock(heap, bufs)].allocd
  /\ m.heap[NewBlock(heap, bufs)].live = {}

\* C16: when the k-th element copy of a growth transfer throws, for every k
\* from 1 to size and in a contiguous and a wrapped layout, the elements
\* already constructed in the new block are destroyed, the new block is
\* released, nothing more is constructed in it, and the exception reaches the
\* caller of reserve or of the push that grew the buffer.
C16_TransferRollback ==
  Usable("a") =>
    \A k \in 1..A.sz :
      /\ \A n \in A.cap..MaxReserve : RolledBack(reserve(Start(k), "a", n))
      /\ A.sz + 1 >= A.cap =>
           \A v \in Values : RolledBack(push_back(Start(k + 1), "a", v))

\* A growth of "a" has left m: head is 0, the element of logical index i is
\* in slot i of a new block, size() and the elements are as before, and the
\* old block is released
Grown(m) ==
  /\ ~m.exc /\ ~m.oom
  /\ m.bufs["a"].head = 0
  /\ m.bufs["a"].sz = A.sz
  /\ m.bufs["a"].arr # A.arr
  /\ \A i \in 0..(A.sz - 1) :
       Rd(m.heap, m.bufs["a"].arr, i) = Rd(heap, A.arr, get_arr_pos(A, i))
  /\ Live(m.heap, m.bufs["a"]) = 0..(A.sz - 1)
  /\ A.arr # Null => ~m.heap[A.arr].allocd

\* C17: after a growth by reserve or by a push, from a contiguous or a
\* wrapped layout, head is 0, the element of logical index i is in slot i of
\* the new block, size() and the elements are as before, the old block is
\* released, and the slots the growth destroyed in the old block (line 298,
\* the circular run) are the slots that held an element.
C17_GrowthLayout ==
  Usable("a") =>
    /\ \A n \in A.cap..MaxReserve : Grown(reserve(Start(NoFault), "a", n))
    /\ A.sz + 1 >= A.cap => Grown(ensure_cap(Start(NoFault), "a"))
    /\ A.cap <= MaxReserve \/ A.sz + 1 >= A.cap => Run(A) = Live(heap, A)

\* insert at p of "a" has left m: the element went in with push_front,
\* which is the push that moves the head the growth left, exactly when
\* p < n - p, and min(p, n - p) swaps followed
InsertedNear(m, p) ==
  /\ ~m.exc /\ ~m.oom
  /\ m.swaps = Min({p, A.sz - p})
  /\ A.sz > 0 =>
       (m.bufs["a"].head # ensure_cap(Start(NoFault), "a").bufs["a"].head
          <=> p < A.sz - p)

\* erase at p of "a" has left m: min(p, n - 1 - p) swaps were made and the
\* front, whose pop moves the head, was popped exactly when p < n - p
ErasedNear(m, p) ==
  /\ m.swaps = Min({p, A.sz - 1 - p})
  /\ m.bufs["a"].head # A.head <=> p < A.sz - p

\* C18: insert at logical index p of a buffer of size n adds the element
\* with push_front exactly when p < n - p and with push_back otherwise, a tie
\* included, and then makes exactly min(p, n - p) swaps; erase at p makes
\* exactly min(p, n - 1 - p) swaps and pops the nearer end.
C18_NearerEnd ==
  Usable("a") =>
    /\ \A p \in 0..A.sz, v \in Values :
         InsertedNear(insert(Start(NoFault), "a", p, v), p)
    /\ \A p \in 0..(A.sz - 1) : ErasedNear(erase(Start(NoFault), "a", p), p)

\* An insert has brought a buffer whose head is not 0 to three elements
C18_Witness == last.op = "insert" /\ A.sz = 3 /\ A.head # 0

\* lines 49-51: the slot operator[](index) of the buffer reads
Subscript(b, index) == (b.head + index) % b.cap

\* lines 400-403 and 410-413: the arr_index of it + k
IterPlus(it, k) == it + k

\* lines 396-398: the slot it[index] reads
IterIndex(b, it, index) == get_arr_pos(b, it + index)

\* In the buffer b the iterator made as begin() + i reads the slot of
\* operator[](i), and it[k] reads the slot of *(it + k)
Resolves(b, i) ==
  i < b.sz =>
    /\ IterSlot(b, IterPlus(0, i)) = Subscript(b, i)
    /\ \A k \in 0..(b.sz - 1 - i) :
         IterIndex(b, IterPlus(0, i), k) = IterSlot(b, IterPlus(IterPlus(0, i), k))

\* C19: an iterator made as begin() + i, after any operations on its buffer
\* that leave i < size(), the ones that move head or reallocate included,
\* reads the element operator[](i) reads in the current state, the slot
\* (head + i) mod capacity of the current head and capacity; it[k] reads the
\* element *(it + k) reads.
C19_IteratorFollowsHead ==
  Usable("a") =>
    /\ \A i \in 0..MaxSize : Resolves(A, i)
    /\ \A m \in Mutations("a") : \A i \in 0..MaxSize : Resolves(m.bufs["a"], i)

\* The head has moved after the storage was reallocated
C19_Witness == last.op = "pop_front" /\ A.cap = 6 /\ A.sz >= 2 /\ A.head # 0

\* The call on "a" that left m has returned the iterator of logical index i,
\* which reads the value v, or is end() when follows is false
Returns(m, i, follows, v) ==
  /\ ~m.exc /\ ~m.oom
  /\ m.ret = i
  /\ IF follows
     THEN /\ m.ret < m.bufs["a"].sz
          /\ Rd(m.heap, m.bufs["a"].arr, IterSlot(m.bufs["a"], m.ret)) = v
     ELSE m.ret = m.bufs["a"].sz

\* The element of logical index i of "a", when there is one
ElemAt(i) == IF i < A.sz THEN Elems(heap, A)[i + 1] ELSE Junk

\* C20: insert(begin() + p, v) returns the iterator of logical index p, which
\* reads v; erase(begin() + p) returns the one of index p and
\* erase(begin() + f, begin() + l) the one of index f, which read the element
\* that followed the erased ones or are end() when none followed.
C20_ReturnedIterator ==
  Usable("a") =>
    /\ \A p \in 0..A.sz, v \in Values :
         Returns(insert(Start(NoFault), "a", p, v), p, TRUE, v)
    /\ \A p \in 0..(A.sz - 1) :
         Returns(erase(Start(NoFault), "a", p), p, p + 1 < A.sz, ElemAt(p + 1))
    /\ \A f \in 0..A.sz : \A l \in f..A.sz :
         Returns(erase_range(Start(NoFault), "a", f, l), f, l < A.sz, ElemAt(l))

====
